---------------------------- MODULE Spec2Model ----------------------------
(***************************************************************************)
(* A model of wownow (src/wownow/__main__.py): the Ribbit table parser     *)
(* (Header, RibbitResponse, BuildVersion) and the orchestrator run().      *)
(*                                                                         *)
(* Python strings are TLA+ strings; the character at position i of s is    *)
(* SubSeq(s, i, i).  A Python call that may raise is an operator whose     *)
(* value is Ok(v) or Err(e), e the exception's class.  The spec's          *)
(* "format error" is Python's ValueError.                                  *)
(***************************************************************************)
EXTENDS Integers, Sequences, FiniteSets, TLC

VARIABLES
  pc,         \* position of the harness or of run()
  raw,        \* Header harness: the column descriptor
  header,     \* Header harness: result of Header.parse(raw)
  cell,       \* Header harness: the raw cell handed to parse_data
  decoded,    \* Header harness: result of header.parse_data(cell)
  body,       \* table harness: the response body
  response,   \* table harness: result of RibbitResponse.parse(body)
  got,        \* table harness: the last get(row, column) call and its result
  allrows,    \* table harness: result of get_all()
  vstr,       \* version harness: the version string
  bv,         \* version harness: result of BuildVersion.parse(vstr)
  derived,    \* version harness: version / interface_version of bv
  tasks,      \* run(): the get_versions task of each product
  responses,  \* run(): the result slots of asyncio.gather
  gatherExc,  \* run(): the exception gather was given first, if any
  runExc,     \* run(): the exception that ended run(), if any
  overtaken,  \* run(): history, some fetch finished before an earlier-listed one
  stdout      \* run(): what has been printed

vars == <<pc, raw, header, cell, decoded, body, response, got, allrows,
          vstr, bv, derived, tasks, responses, gatherExc, runExc, overtaken,
          stdout>>

headerVars == <<raw, header, cell, decoded>>
tableVars == <<body, response, got, allrows>>
versionVars == <<vstr, bv, derived>>
runVars == <<tasks, responses, gatherExc, runExc, overtaken, stdout>>

Ok(v) == [ok |-> TRUE, val |-> v]
Err(e) == [ok |-> FALSE, err |-> e]
None == [kind |-> "None"]
StrVal(s) == [kind |-> "str", s |-> s]
IntVal(i) == [kind |-> "int", i |-> i]
BytesVal(b) == [kind |-> "bytes", b |-> b]

(***************************************************************************)
(* Python built-ins the program calls.                                     *)
(***************************************************************************)
Char(s, i) == SubSeq(s, i, i)

Digits == "0123456789"
HexDigits == "0123456789abcdefABCDEF"
LowerCase == "abcdefghijklmnopqrstuvwxyz"
UpperCase == "ABCDEFGHIJKLMNOPQRSTUVWXYZ"
Whitespace == {" ", "\t", "\n", "\r", "\f"}
LineBoundaries == {"\n", "\r", "\f"}

IndexIn(c, alphabet) ==
  IF \E i \in 1..Len(alphabet) : Char(alphabet, i) = c
  THEN CHOOSE i \in 1..Len(alphabet) : Char(alphabet, i) = c
  ELSE 0

IsDigit(c) == IndexIn(c, Digits) > 0
DigitVal(c) == IndexIn(c, Digits) - 1
IsHexDigit(c) == IndexIn(c, HexDigits) > 0
HexVal(c) ==
  LET i == IndexIn(c, HexDigits)
  IN IF i <= 16 THEN i - 1 ELSE i - 7

\* The k-th smallest member of a finite set of integers.
Nth(S, k) == CHOOSE i \in S : Cardinality({j \in S : j < i}) = k - 1

\* str.split(sep) for a one-character sep: every occurrence separates, so n
\* occurrences give n + 1 pieces.
str_split(s, sep) ==
  LET at == {i \in 1..Len(s) : Char(s, i) = sep}
      n == Cardinality(at) + 1
  IN [k \in 1..n |->
        SubSeq(s, IF k = 1 THEN 1 ELSE Nth(at, k - 1) + 1,
                  IF k = n THEN Len(s) ELSE Nth(at, k) - 1)]

\* str.splitlines(): a line ends at \n, \r, \r\n or \f; the boundary is not
\* part of the line, and no empty line follows the last boundary.
str_splitlines(s) ==
  LET ends == {i \in 1..Len(s) :
                 /\ Char(s, i) \in LineBoundaries
                 /\ ~(Char(s, i) = "\r" /\ i < Len(s) /\ Char(s, i + 1) = "\n")}
      n == Cardinality(ends)
      last == IF n = 0 THEN 0 ELSE Nth(ends, n)
      start(k) == IF k = 1 THEN 1 ELSE Nth(ends, k - 1) + 1
      stop(k) ==
        LET e == Nth(ends, k)
        IN IF Char(s, e) = "\n" /\ e - 1 >= start(k) /\ Char(s, e - 1) = "\r"
           THEN e - 2
           ELSE e - 1
      whole == [k \in 1..n |-> SubSeq(s, start(k), stop(k))]
  IN IF last < Len(s) THEN Append(whole, SubSeq(s, last + 1, Len(s))) ELSE whole

\* str.upper() on ASCII letters.
RECURSIVE str_upper(_)
str_upper(s) ==
  IF s = "" THEN ""
  ELSE LET i == IndexIn(Head(s), LowerCase)
       IN (IF i > 0 THEN Char(UpperCase, i) ELSE Head(s)) \o str_upper(Tail(s))

\* str.strip() of whitespace, as int() applies it.
RECURSIVE lstrip(_)
lstrip(s) ==
  IF s # "" /\ Head(s) \in Whitespace THEN lstrip(Tail(s)) ELSE s

RECURSIVE rstrip(_)
rstrip(s) ==
  IF s # "" /\ Char(s, Len(s)) \in Whitespace
  THEN rstrip(SubSeq(s, 1, Len(s) - 1))
  ELSE s

\* The digits of an int() literal: digits, single underscores between them.
RECURSIVE IsIntBody(_, _)
IsIntBody(s, afterDigit) ==
  IF s = "" THEN afterDigit
  ELSE IF IsDigit(Head(s)) THEN IsIntBody(Tail(s), TRUE)
       ELSE IF Head(s) = "_" THEN afterDigit /\ IsIntBody(Tail(s), FALSE)
            ELSE FALSE

RECURSIVE IntBodyVal(_, _)
IntBodyVal(s, acc) ==
  IF s = "" THEN acc
  ELSE IF Head(s) = "_" THEN IntBodyVal(Tail(s), acc)
       ELSE IntBodyVal(Tail(s), 10 * acc + DigitVal(Head(s)))

\* int(s): optional surrounding whitespace, optional sign, decimal digits.
int(s) ==
  LET t == rstrip(lstrip(s))
      signed == t # "" /\ Head(t) \in {"+", "-"}
      digits == IF signed THEN Tail(t) ELSE t
  IN IF IsIntBody(digits, FALSE)
     THEN Ok(IF signed /\ Head(t) = "-"
             THEN 0 - IntBodyVal(digits, 0)
             ELSE IntBodyVal(digits, 0))
     ELSE Err("ValueError")

\* int.bit_length(): the bits of the absolute value.
RECURSIVE bit_length_nat(_)
bit_length_nat(n) == IF n = 0 THEN 0 ELSE 1 + bit_length_nat(n \div 2)

bit_length(v) == bit_length_nat(IF v < 0 THEN 0 - v ELSE v)

\* bytes.fromhex(s): pairs of hex digits, whitespace allowed between pairs.
RECURSIVE bytes_fromhex(_)
bytes_fromhex(s) ==
  IF s = "" THEN Ok(<<>>)
  ELSE IF Head(s) \in Whitespace THEN bytes_fromhex(Tail(s))
       ELSE IF Len(s) >= 2 /\ IsHexDigit(Char(s, 1)) /\ IsHexDigit(Char(s, 2))
            THEN LET rest == bytes_fromhex(SubSeq(s, 3, Len(s)))
                 IN IF rest.ok
                    THEN Ok(<<16 * HexVal(Char(s, 1)) + HexVal(Char(s, 2))>>
                            \o rest.val)
                    ELSE rest
            ELSE Err("ValueError")

\* str(n) for n >= 0.
RECURSIVE nat_str(_)
nat_str(n) ==
  IF n < 10 THEN Char(Digits, n + 1)
  ELSE nat_str(n \div 10) \o Char(Digits, (n % 10) + 1)

RECURSIVE zero_fill(_, _)
zero_fill(s, width) == IF Len(s) >= width THEN s ELSE zero_fill("0" \o s, width)

\* format(n, "02d"): the sign, then the digits zero-filled so that the whole
\* is at least two characters wide.
format_02d(n) ==
  IF n < 0 THEN "-" \o zero_fill(nat_str(0 - n), 1)
  ELSE zero_fill(nat_str(n), 2)

\* A dict as the sequence of its items in insertion order.
DictHas(d, k) == \E i \in 1..Len(d) : d[i].key = k
DictGet(d, k) == d[CHOOSE i \in 1..Len(d) : d[i].key = k].value
DictSet(d, k, v) ==
  IF DictHas(d, k)
  THEN [i \in 1..Len(d) |-> IF d[i].key = k THEN [key |-> k, value |-> v] ELSE d[i]]
  ELSE Append(d, [key |-> k, value |-> v])
DictKeys(d) == [i \in 1..Len(d) |-> d[i].key]

\* d[key] = item and l.append(item), where building d or l, or computing item,
\* may have raised: the first exception raised is the outcome.
dict_setitem(d, key, item) ==
  IF ~d.ok THEN d ELSE IF ~item.ok THEN item ELSE Ok(DictSet(d.val, key, item.val))
list_append(l, item) ==
  IF ~l.ok THEN l ELSE IF ~item.ok THEN item ELSE Ok(Append(l.val, item.val))

(***************************************************************************)
(* Header                                                                  *)
(***************************************************************************)
HeaderType == {"STRING", "HEX", "DEC"}

is_header_type(value) == value \in HeaderType

Header_parse(r) ==
  LET parts == str_split(r, "!")
  IN IF Len(parts) # 2 THEN Err("ValueError")
     ELSE LET rest == str_split(parts[2], ":")
          IN IF Len(rest) # 2 THEN Err("ValueError")
             ELSE LET type_ == str_upper(rest[1])
                      size == int(rest[2])
                  IN IF ~is_header_type(type_) THEN Err("ValueError")
                     ELSE IF ~size.ok THEN Err("ValueError")
                          ELSE Ok([name |-> parts[1], type_ |-> type_,
                                   size_bytes |-> size.val])

parse_hex(s, h) ==
  IF s = "" THEN Ok(None)
  ELSE LET value == bytes_fromhex(s)
       IN IF ~value.ok THEN Err("ValueError")
          ELSE IF Len(value.val) # h.size_bytes THEN Err("ValueError")
               ELSE Ok(BytesVal(value.val))

parse_string(s, h) == Ok(StrVal(s))

parse_dec(s, h) ==
  IF s = "" THEN Ok(None)
  ELSE LET value == int(s)
       IN IF ~value.ok THEN Err("ValueError")
          ELSE IF bit_length(value.val) > h.size_bytes * 8 THEN Err("ValueError")
               ELSE Ok(IntVal(value.val))

Header_parse_data(h, r) ==
  CASE h.type_ = "HEX" -> parse_hex(r, h)
    [] h.type_ = "STRING" -> parse_string(r, h)
    [] h.type_ = "DEC" -> parse_dec(r, h)

(***************************************************************************)
(* Header harness: a descriptor and a cell, parsed and decoded.            *)
(***************************************************************************)
Idle == [ok |-> FALSE, err |-> "not called"]

HeaderNames == {"", "n", "a:b"}
HeaderBangs == {"", "!", "!!"}
HeaderTypes == {"STRING", "hex", "Dec", "INT"}
HeaderColons == {"", ":", "::"}
HeaderSizes == {"0", "1", "2", "-1", "x", "", " 1"}
Descriptors ==
  {n \o b \o t \o c \o z :
     n \in HeaderNames, b \in HeaderBangs, t \in HeaderTypes,
     c \in HeaderColons, z \in HeaderSizes}
Cells == {"", "0", "255", "256", "65535", "65536", "-1", "-256", "0a0b", "0a", "zz", "1_0"}

HeaderInit ==
  /\ pc = "header"
  /\ raw \in Descriptors
  /\ cell \in Cells
  /\ header = Idle
  /\ decoded = Idle
  /\ body = "" /\ response = Idle /\ got = Idle /\ allrows = Idle
  /\ vstr = "" /\ bv = Idle /\ derived = Idle
  /\ tasks = <<>> /\ responses = <<>> /\ gatherExc = "" /\ runExc = ""
  /\ overtaken = FALSE /\ stdout = <<>>

DoHeaderParse ==
  /\ pc = "header"
  /\ header' = Header_parse(raw)
  /\ pc' = IF header'.ok THEN "cell" ELSE "raised"
  /\ UNCHANGED <<raw, cell, decoded, tableVars, versionVars, runVars>>

DoParseData ==
  /\ pc = "cell"
  /\ decoded' = Header_parse_data(header.val, cell)
  /\ pc' = IF decoded'.ok THEN "decoded" ELSE "raised"
  /\ UNCHANGED <<raw, cell, header, tableVars, versionVars, runVars>>

HeaderNext == DoHeaderParse \/ DoParseData

HeaderSpec == HeaderInit /\ [][HeaderNext]_vars


(***************************************************************************)
(* What the descriptor NAME!TYPE:SIZE says, read off the text itself: NAME *)
(* ends at the first "!", TYPE at the first ":" after it.                  *)
(***************************************************************************)
FirstIndexOf(s, c) ==
  IF \E i \in 1..Len(s) : Char(s, i) = c
  THEN CHOOSE i \in 1..Len(s) :
         Char(s, i) = c /\ \A j \in 1..(i - 1) : Char(s, j) # c
  ELSE 0

DescName(r) == SubSeq(r, 1, FirstIndexOf(r, "!") - 1)
DescRest(r) == SubSeq(r, FirstIndexOf(r, "!") + 1, Len(r))
DescType(r) == SubSeq(DescRest(r), 1, FirstIndexOf(DescRest(r), ":") - 1)
DescSize(r) == SubSeq(DescRest(r), FirstIndexOf(DescRest(r), ":") + 1, Len(DescRest(r)))
DescSeparated(r) == FirstIndexOf(r, "!") > 0 /\ FirstIndexOf(DescRest(r), ":") > 0
IsInteger(s) == int(s).ok
IsNonNegativeInteger(s) == int(s).ok /\ int(s).val >= 0

HeaderParsed == header # Idle
CellDecoded == decoded # Idle

\* C6: Header.parse(raw) fails with ValueError when "!" or ":" is absent, when
\* the upper-cased TYPE is not STRING, HEX or DEC, or when SIZE is not a valid
\* non-negative integer; every other descriptor yields Header(NAME, upper-cased
\* TYPE, SIZE), so that size_bytes >= 0 in every Header.
C6_HeaderParseContract ==
  HeaderParsed =>
    IF /\ DescSeparated(raw)
       /\ str_upper(DescType(raw)) \in {"STRING", "HEX", "DEC"}
       /\ IsNonNegativeInteger(DescSize(raw))
    THEN header = Ok([name |-> DescName(raw),
                      type_ |-> str_upper(DescType(raw)),
                      size_bytes |-> int(DescSize(raw)).val])
    ELSE header = Err("ValueError")

\* C6, as far as the code goes: the same with "SIZE is an integer" in place
\* of "SIZE is a non-negative integer" (a negative SIZE is accepted).
HeaderParseAcceptsAnyInteger ==
  HeaderParsed =>
    IF /\ DescSeparated(raw)
       /\ str_upper(DescType(raw)) \in {"STRING", "HEX", "DEC"}
       /\ IsInteger(DescSize(raw))
    THEN header = Ok([name |-> DescName(raw),
                      type_ |-> str_upper(DescType(raw)),
                      size_bytes |-> int(DescSize(raw)).val])
    ELSE header = Err("ValueError")

\* C7: under a DEC header of size_bytes = n >= 0 the empty cell decodes to
\* None, and a non-empty cell decodes to its integer v exactly when
\* 0 <= v < 2^(8n), failing with ValueError otherwise; no negative integer is
\* returned.
C7_DecDecodeContract ==
  (CellDecoded /\ header.val.type_ = "DEC" /\ header.val.size_bytes >= 0) =>
    LET n == header.val.size_bytes
        v == int(cell)
    IN IF cell = "" THEN decoded = Ok(None)
       ELSE IF v.ok /\ 0 <= v.val /\ v.val < 2 ^ (8 * n)
            THEN decoded = Ok(IntVal(v.val))
            ELSE decoded = Err("ValueError")

\* C7, as far as the code goes: the bound is on the absolute value, so the
\* negative integers above -2^(8n) are returned too.
DecDecodeBoundsMagnitude ==
  (CellDecoded /\ header.val.type_ = "DEC" /\ header.val.size_bytes >= 0) =>
    LET n == header.val.size_bytes
        v == int(cell)
    IN IF cell = "" THEN decoded = Ok(None)
       ELSE IF v.ok /\ 0 - (2 ^ (8 * n)) < v.val /\ v.val < 2 ^ (8 * n)
            THEN decoded = Ok(IntVal(v.val))
            ELSE decoded = Err("ValueError")


(***************************************************************************)
(* RibbitResponse                                                          *)
(***************************************************************************)
RECURSIVE AllDigits(_)
AllDigits(s) == s = "" \/ (IsDigit(Head(s)) /\ AllDigits(Tail(s)))

\* seqn_pattern.match(line) for r"^## seqn = (\d+)$": Ok(group 1) on a match.
\* "$" matches at the end and also just before a final "\n".
seqn_pattern_match_loose(line) ==
  LET prefix == "## seqn = "
      rest == SubSeq(line, Len(prefix) + 1, Len(line))
      k == IF \E i \in 1..Len(rest) : ~IsDigit(Char(rest, i))
           THEN (CHOOSE i \in 1..Len(rest) :
                   ~IsDigit(Char(rest, i)) /\ AllDigits(SubSeq(rest, 1, i - 1))) - 1
           ELSE Len(rest)
  IN IF SubSeq(line, 1, Len(prefix)) = prefix /\ k >= 1
     THEN Ok(SubSeq(rest, 1, k))
     ELSE Err("no match")

seqn_pattern_match(line) ==
  LET prefix == "## seqn = "
      core == IF line # "" /\ Char(line, Len(line)) = "\n"
              THEN SubSeq(line, 1, Len(line) - 1)
              ELSE line
      digits == SubSeq(core, Len(prefix) + 1, Len(core))
  IN IF SubSeq(core, 1, Len(prefix)) = prefix /\ digits # "" /\ AllDigits(digits)
     THEN Ok(digits)
     ELSE Err("no match")

\* The test of line 113, negated: the row's values fit the headers.
row_fits_lax(values, headers) == Len(values) <= Len(headers)

row_fits_decoding(values, headers) ==
  /\ Len(values) = Len(headers)
  /\ \A i \in 1..Len(headers) : Header_parse_data(headers[i], values[i]).ok

row_fits(values, headers) == Len(values) = Len(headers)

RibbitResponse_parse(r) ==
  LET lines == str_splitlines(r)
  IN IF Len(lines) < 2 THEN Err("ValueError")
     ELSE LET header_row == lines[1]
              seqn_row == lines[2]
              data_rows == SubSeq(lines, 3, Len(lines))
              descriptors == str_split(header_row, "|")
              parsed == [i \in 1..Len(descriptors) |-> Header_parse(descriptors[i])]
              seqn_match == seqn_pattern_match(seqn_row)
          IN IF \E i \in 1..Len(parsed) : ~parsed[i].ok THEN Err("ValueError")
             ELSE LET headers == [i \in 1..Len(parsed) |-> parsed[i].val]
                      rows == [i \in 1..Len(data_rows) |-> str_split(data_rows[i], "|")]
                  IN IF ~seqn_match.ok THEN Err("ValueError")
                     ELSE IF \E i \in 1..Len(rows) : ~row_fits(rows[i], headers)
                          THEN Err("ValueError")
                          ELSE Ok([sequence_number |-> int(seqn_match.val).val,
                                   headers |-> headers,
                                   rows |-> rows])

\* {h.name: i for i, h in enumerate(headers)}, as the dict of the first n.
RECURSIVE header_indices_upto(_, _)
header_indices_upto(headers, n) ==
  IF n = 0 THEN <<>>
  ELSE DictSet(header_indices_upto(headers, n - 1), headers[n].name, n - 1)

RECURSIVE header_indices_first_upto(_, _)
header_indices_first_upto(headers, n) ==
  IF n = 0 THEN <<>>
  ELSE LET d == header_indices_first_upto(headers, n - 1)
       IN IF DictHas(d, headers[n].name) THEN d
          ELSE DictSet(d, headers[n].name, n - 1)

header_indices_first(headers) == header_indices_first_upto(headers, Len(headers))

header_indices(headers) == header_indices_upto(headers, Len(headers))

\* list[i] of a list of n items: 0 <= i < n, or -n <= i < 0 from the end.
ListIndexOk(n, i) == 0 - n <= i /\ i < n
ListIndex(n, i) == IF i < 0 THEN n + i + 1 ELSE i + 1

RibbitResponse_get(self, row, column) ==
  LET indices == header_indices(self.headers)
  IN IF ~DictHas(indices, column) THEN Err("ValueError")
     ELSE LET col_index == DictGet(indices, column)
              h == self.headers[col_index + 1]
          IN IF ~ListIndexOk(Len(self.rows), row) THEN Err("IndexError")
             ELSE Header_parse_data(h, self.rows[ListIndex(Len(self.rows), row)][col_index + 1])

RibbitResponse_get_columns(self) ==
  [i \in 1..Len(self.headers) |-> self.headers[i].name]

\* The inner loop of get_all: row_dict after the first n headers.
RECURSIVE row_dict_upto(_, _, _)
row_dict_upto(self, row_index, n) ==
  IF n = 0 THEN Ok(<<>>)
  ELSE dict_setitem(row_dict_upto(self, row_index, n - 1),
                    self.headers[n].name,
                    RibbitResponse_get(self, row_index, self.headers[n].name))

\* The outer loop of get_all: result after the first n rows.
RECURSIVE get_all_upto(_, _)
get_all_upto(self, n) ==
  IF n = 0 THEN Ok(<<>>)
  ELSE list_append(get_all_upto(self, n - 1),
                   row_dict_upto(self, n - 1, Len(self.headers)))

get_all_short(self) ==
  get_all_upto(self, IF Len(self.rows) = 0 THEN 0 ELSE Len(self.rows) - 1)

RibbitResponse_get_all(self) == get_all_upto(self, Len(self.rows))

(***************************************************************************)
(* Table harness: a body is parsed, then get is called, or not, and then   *)
(* get_all.                                                                *)
(***************************************************************************)
MaxRows == 2

HeaderRows ==
  {"r!STRING:0|v!STRING:0", "k!HEX:2|n!DEC:1",
   "a!STRING:0|a!DEC:1", "n!dec:1", "n!INT:1"}
SeqnRows ==
  {"## seqn = 12345", "## seqn = 007", "## seqn = ", "## seqn = 12x",
   "# seqn = 1"}
DataRows ==
  {"0a0b|255", "0a|255", "0a0b|256", "7", "", "x|y|z"}
LineEnds == {"\n", "\r\n"}

RECURSIVE RowSeqs(_)
RowSeqs(n) ==
  IF n = 0 THEN {<<>>}
  ELSE RowSeqs(n - 1) \cup
       {Append(rs, r) : rs \in RowSeqs(n - 1), r \in DataRows}

RECURSIVE JoinLines(_, _)
JoinLines(lines, e) ==
  IF lines = <<>> THEN "" ELSE Head(lines) \o e \o JoinLines(Tail(lines), e)

Bodies ==
  {JoinLines(<<h, q>> \o rs, e) :
     h \in HeaderRows, q \in SeqnRows, rs \in RowSeqs(MaxRows), e \in LineEnds}
  \cup {JoinLines(<<h>>, e) : h \in HeaderRows, e \in LineEnds}
  \cup {""}

RowArgs == (0 - 1)..MaxRows
ColumnArgs == {"r", "k", "n", "a", "zz"}

TableInit ==
  /\ pc = "body"
  /\ body \in Bodies
  /\ response = Idle /\ got = Idle /\ allrows = Idle
  /\ raw = "" /\ header = Idle /\ cell = "" /\ decoded = Idle
  /\ vstr = "" /\ bv = Idle /\ derived = Idle
  /\ tasks = <<>> /\ responses = <<>> /\ gatherExc = "" /\ runExc = ""
  /\ overtaken = FALSE /\ stdout = <<>>

DoParse ==
  /\ pc = "body"
  /\ response' = RibbitResponse_parse(body)
  /\ pc' = IF response'.ok THEN "parsed" ELSE "raised"
  /\ UNCHANGED <<body, got, allrows, headerVars, versionVars, runVars>>

DoGet(row, column) ==
  /\ pc = "parsed"
  /\ got' = [row |-> row, column |-> column,
             result |-> RibbitResponse_get(response.val, row, column)]
  /\ pc' = "got"
  /\ UNCHANGED <<body, response, allrows, headerVars, versionVars, runVars>>

DoGetAll ==
  /\ pc \in {"parsed", "got"}
  /\ allrows' = RibbitResponse_get_all(response.val)
  /\ pc' = "all"
  /\ UNCHANGED <<body, response, got, headerVars, versionVars, runVars>>

TableNext ==
  \/ DoParse
  \/ \E row \in RowArgs, column \in ColumnArgs : DoGet(row, column)
  \/ DoGetAll

TableSpec == TableInit /\ [][TableNext]_vars


(***************************************************************************)
(* BuildVersion                                                            *)
(***************************************************************************)
BuildVersion_parse(s) ==
  LET parts == str_split(s, ".")
  IN IF Len(parts) # 4 THEN Err("ValueError")
     ELSE Ok([major |-> parts[1], minor |-> parts[2],
              patch |-> parts[3], build |-> parts[4]])

BuildVersion_version(self) ==
  self.major \o "." \o self.minor \o "." \o self.patch

\* The two "{int(...):02d}" fields of line 174.
format_d(n) == IF n < 0 THEN "-" \o nat_str(0 - n) ELSE nat_str(n)

interface_field(n) == format_02d(n)

BuildVersion_interface_version(self) ==
  LET minor == int(self.minor)
      patch == int(self.patch)
  IN IF ~minor.ok \/ ~patch.ok THEN Err("ValueError")
     ELSE Ok(self.major \o interface_field(minor.val) \o interface_field(patch.val))

(***************************************************************************)
(* Version harness: a string is parsed, then its properties are read.      *)
(***************************************************************************)
Majors == {"10", "1", "01", ""}
Minors == {"2", "0", "15", "123", "x", "-2", "", " 7"}
Patches == {"5", "0", "07", "100", "y", "-12"}
Builds == {"12345", "1"}
VersionStrings ==
  {ma \o "." \o mi \o "." \o pa \o "." \o bu :
     ma \in Majors, mi \in Minors, pa \in Patches, bu \in Builds}
  \cup {"", "1", "1.2", "1.2.3", "10.2.5.12345.6"}

NotRead == [version |-> Idle, interface |-> Idle]

VersionInit ==
  /\ pc = "string"
  /\ vstr \in VersionStrings
  /\ bv = Idle /\ derived = NotRead
  /\ raw = "" /\ header = Idle /\ cell = "" /\ decoded = Idle
  /\ body = "" /\ response = Idle /\ got = Idle /\ allrows = Idle
  /\ tasks = <<>> /\ responses = <<>> /\ gatherExc = "" /\ runExc = ""
  /\ overtaken = FALSE /\ stdout = <<>>

DoBuildVersionParse ==
  /\ pc = "string"
  /\ bv' = BuildVersion_parse(vstr)
  /\ pc' = IF bv'.ok THEN "parsed" ELSE "raised"
  /\ UNCHANGED <<vstr, derived, headerVars, tableVars, runVars>>

DoVersion ==
  /\ pc = "parsed"
  /\ derived' = [derived EXCEPT !.version = Ok(BuildVersion_version(bv.val))]
  /\ UNCHANGED <<pc, vstr, bv, headerVars, tableVars, runVars>>

DoInterfaceVersion ==
  /\ pc = "parsed"
  /\ derived' = [derived EXCEPT !.interface = BuildVersion_interface_version(bv.val)]
  /\ UNCHANGED <<pc, vstr, bv, headerVars, tableVars, runVars>>

VersionNext == DoBuildVersionParse \/ DoVersion \/ DoInterfaceVersion

VersionSpec == VersionInit /\ [][VersionNext]_vars


(***************************************************************************)
(* The orchestrator: get_versions, run.                                    *)
(***************************************************************************)
products == <<"wow", "wow_classic", "wow_classic_era", "wow_anniversary">>

get_version_endpoint(product) ==
  "http://us.patch.battle.net:1119/" \o product \o "/versions"

\* response.raise_for_status(): only a 2xx status passes.
raise_for_status(reply) ==
  IF 200 <= reply.status /\ reply.status < 300 THEN Ok(reply)
  ELSE Err("HTTPStatusError")

\* get_versions from the point where client.get(url) has answered.
get_versions_resume(reply) ==
  IF ~raise_for_status(reply).ok THEN raise_for_status(reply)
  ELSE RibbitResponse_parse(reply.text)

\* asyncio.gather: the slot of the result list that child i's result fills;
\* nfinished is the number of children that finished before it.
gather_slot_by_completion(i, nfinished) == nfinished + 1

gather_slot(i, nfinished) == i

\* Lines 193-200: one entry of "versions" from one row of get_all().
version_entry(row) ==
  IF ~DictHas(row, "VersionsName") THEN Err("KeyError")
  ELSE LET version_str == DictGet(row, "VersionsName")
       IN IF version_str.kind # "str"
          THEN Err(IF version_str.kind = "bytes" THEN "TypeError" ELSE "AttributeError")
          ELSE LET build_version == BuildVersion_parse(version_str.s)
               IN IF ~build_version.ok THEN build_version
                  ELSE IF ~DictHas(row, "Region") THEN Err("KeyError")
                       ELSE LET interface ==
                                  BuildVersion_interface_version(build_version.val)
                            IN IF ~interface.ok THEN interface
                               ELSE Ok([region |-> DictGet(row, "Region"),
                                        version |-> BuildVersion_version(build_version.val),
                                        build |-> build_version.val.build,
                                        interface |-> interface.val])

\* The loop of lines 192-201 over the first n rows.
RECURSIVE versions_upto(_, _)
versions_upto(rows, n) ==
  IF n = 0 THEN Ok(<<>>)
  ELSE list_append(versions_upto(rows, n - 1), version_entry(rows[n]))

\* Lines 186-201: the product_dict of one product.
product_dict_of(product, resp, versions) ==
  IF ~versions.ok THEN versions
  ELSE Ok([name |-> product,
           sequence_number |-> resp.sequence_number,
           versions |-> versions.val])

versions_of(rows) ==
  IF ~rows.ok THEN rows ELSE versions_upto(rows.val, Len(rows.val))

product_dict(product, resp) ==
  product_dict_of(product, resp, versions_of(RibbitResponse_get_all(resp)))

\* The loop of lines 185-203 over the first n pairs of zip(products, resps).
RECURSIVE root_products_upto(_, _)
root_products_upto(resps, n) ==
  IF n = 0 THEN Ok(<<>>)
  ELSE dict_setitem(root_products_upto(resps, n - 1),
                    products[n],
                    product_dict(products[n], resps[n]))

RECURSIVE root_products_skipping_upto(_, _)
root_products_skipping_upto(resps, n) ==
  IF n = 0 THEN Ok(<<>>)
  ELSE LET prev == root_products_skipping_upto(resps, n - 1)
           d == product_dict(products[n], resps[n])
       IN IF ~d.ok THEN prev
          ELSE Ok(DictSet(prev.val, products[n], d.val))

root_products_skipping(resps) == root_products_skipping_upto(resps, Len(products))

root_products(resps) == root_products_upto(resps, Len(products))

\* json.dumps(root): bytes are not serializable.  What is printed is kept as
\* the structure dumped; retrieval_datetime and the text layout are left out.
json_dumps(root) ==
  IF \E p \in 1..Len(root.products) :
       \E v \in 1..Len(root.products[p].value.versions) :
         root.products[p].value.versions[v].region.kind = "bytes"
  THEN Err("TypeError")
  ELSE Ok(root)

\* Lines 181-204, after gather has returned resps.
report_of(prods) ==
  IF ~prods.ok THEN prods ELSE json_dumps([products |-> prods.val])

run_report(resps) == report_of(root_products(resps))

(***************************************************************************)
(* run() as a state machine.  Init is run() suspended in gather with one   *)
(* get_versions task per product, none started.  The transport answers     *)
(* each request with a transport error or with a status and a body.        *)
(***************************************************************************)
RunBodies ==
  {"Region!STRING:0|VersionsName!STRING:0\n## seqn = 12345\nus|10.2.5.12345\n",
   "Region!STRING:0|VersionsName!STRING:0\n## seqn = 7\nus|1.0.0.1\neu|1.15.7.2\n",
   "Region!STRING:0|VersionsName!STRING:0\n## seqn = x\nus|1.0.0.1\n",
   "Region!STRING:0|VersionsName!STRING:0|n!DEC:1\n## seqn = 3\nus|1.0.0.1|256\n",
   "Region!STRING:0|VersionsName!STRING:0\n## seqn = 4\nus|1.2.3\n",
   "Region!STRING:0|VersionsName!STRING:0\n## seqn = 5\nus|1.x.3.4\n",
   "Region!STRING:0|Name!STRING:0\n## seqn = 6\nus|1.0.0.1\n",
   "Region!HEX:1|VersionsName!STRING:0\n## seqn = 8\n0a|1.0.0.1\n"}

Replies ==
  {[status |-> 200, text |-> b] : b \in RunBodies}
  \cup {[status |-> 503, text |-> ""]}

\* get_versions_resume over the replies of the transport, as a table.
ReplyOutcome == [reply \in Replies |-> get_versions_resume(reply)]

NewTask(product) ==
  [product |-> product, url |-> get_version_endpoint(product),
   state |-> "pending", status |-> 0, text |-> "", result |-> Idle]

Finished(t) == t.state \in {"done", "failed"}
\* Task i finishes while the task of a product listed before it is unfinished.
Overtakes(i) == \E j \in 1..(i - 1) : ~Finished(tasks[j])
NFinished == Cardinality({i \in 1..Len(products) : Finished(tasks[i])})

Init ==
  /\ pc = "gather"
  /\ tasks = [i \in 1..Len(products) |-> NewTask(products[i])]
  /\ responses = [i \in 1..Len(products) |-> Idle]
  /\ gatherExc = "" /\ runExc = ""
  /\ overtaken = FALSE
  /\ stdout = <<>>
  /\ raw = "" /\ header = Idle /\ cell = "" /\ decoded = Idle
  /\ body = "" /\ response = Idle /\ got = Idle /\ allrows = Idle
  /\ vstr = "" /\ bv = Idle /\ derived = Idle

\* The task runs up to "await client.get(url)".  The event loop starts the
\* tasks in the order gather was given them.
TaskStart(i) ==
  /\ pc = "gather"
  /\ tasks[i].state = "pending"
  /\ \A j \in 1..(i - 1) : tasks[j].state # "pending"
  /\ tasks' = [tasks EXCEPT ![i].state = "awaiting"]
  /\ UNCHANGED <<pc, responses, gatherExc, runExc, overtaken, stdout,
                 headerVars, tableVars, versionVars>>

\* client.get raises: the task fails, gather is given the exception.
TaskTransportError(i) ==
  /\ pc = "gather"
  /\ tasks[i].state = "awaiting"
  /\ tasks' = [tasks EXCEPT ![i].state = "failed",
                            ![i].result = Err("TransportError")]
  /\ gatherExc' = IF gatherExc = "" THEN "TransportError" ELSE gatherExc
  /\ overtaken' = (overtaken \/ Overtakes(i))
  /\ UNCHANGED <<pc, responses, runExc, stdout,
                 headerVars, tableVars, versionVars>>

\* client.get returns: the task checks the status, parses and finishes.
TaskResponse(i, reply) ==
  /\ pc = "gather"
  /\ tasks[i].state = "awaiting"
  /\ LET outcome == ReplyOutcome[reply]
     IN /\ tasks' = [tasks EXCEPT ![i].state = IF outcome.ok THEN "done" ELSE "failed",
                                  ![i].status = reply.status,
                                  ![i].text = reply.text,
                                  ![i].result = outcome]
        /\ responses' = IF outcome.ok
                        THEN [responses EXCEPT ![gather_slot(i, NFinished)] = outcome.val]
                        ELSE responses
        /\ gatherExc' = IF ~outcome.ok /\ gatherExc = "" THEN outcome.err ELSE gatherExc
  /\ overtaken' = (overtaken \/ Overtakes(i))
  /\ UNCHANGED <<pc, runExc, stdout, headerVars, tableVars, versionVars>>

\* gather raises the first exception into run(), which does not handle it;
\* asyncio.run cancels the tasks still running.
RunRaise ==
  /\ pc = "gather"
  /\ gatherExc # ""
  /\ pc' = "failed"
  /\ runExc' = gatherExc
  /\ tasks' = [i \in 1..Len(products) |->
                 IF Finished(tasks[i]) THEN tasks[i]
                 ELSE [tasks[i] EXCEPT !.state = "cancelled"]]
  /\ UNCHANGED <<responses, gatherExc, overtaken, stdout,
                 headerVars, tableVars, versionVars>>

\* gather returns the results: run() builds the report and prints it.
RunAssemble ==
  /\ pc = "gather"
  /\ \A i \in 1..Len(products) : tasks[i].state = "done"
  /\ \E out \in {run_report(responses)} :
        /\ pc' = IF out.ok THEN "done" ELSE "failed"
        /\ runExc' = IF out.ok THEN "" ELSE out.err
        /\ stdout' = IF out.ok THEN Append(stdout, out.val) ELSE stdout
  /\ UNCHANGED <<tasks, responses, gatherExc, overtaken,
                 headerVars, tableVars, versionVars>>

Next ==
  \/ \E i \in 1..Len(products) : TaskStart(i)
  \/ \E i \in 1..Len(products) : TaskTransportError(i)
  \/ \E i \in 1..Len(products), reply \in Replies : TaskResponse(i, reply)
  \/ RunRaise
  \/ RunAssemble

Spec == Init /\ [][Next]_vars


(***************************************************************************)
(* The table claims, stated on the text of the body.                       *)
(***************************************************************************)
BodyLines == str_splitlines(body)
CellCount(line) == Cardinality({i \in 1..Len(line) : Char(line, i) = "|"}) + 1

RECURSIVE JoinCells(_)
JoinCells(cells) ==
  IF Len(cells) = 1 THEN cells[1]
  ELSE cells[1] \o "|" \o JoinCells(Tail(cells))

IsSeqnLine(line) ==
  /\ Len(line) > 10
  /\ SubSeq(line, 1, 10) = "## seqn = "
  /\ \A i \in 11..Len(line) : IsDigit(Char(line, i))

RECURSIVE DecimalValue(_)
DecimalValue(d) ==
  IF d = "" THEN 0
  ELSE 10 * DecimalValue(SubSeq(d, 1, Len(d) - 1)) + DigitVal(Char(d, Len(d)))

DescriptorValid(d) ==
  /\ DescSeparated(d)
  /\ str_upper(DescType(d)) \in {"STRING", "HEX", "DEC"}
  /\ IsInteger(DescSize(d))

HeaderRowValid(line) ==
  LET descriptors == str_split(line, "|")
  IN \A i \in 1..Len(descriptors) : DescriptorValid(descriptors[i])

StructurallyValid ==
  LET lines == BodyLines
  IN /\ Len(lines) >= 2
     /\ HeaderRowValid(lines[1])
     /\ IsSeqnLine(lines[2])
     /\ \A i \in 3..Len(lines) : CellCount(lines[i]) = CellCount(lines[1])

TableParsed == response # Idle
GetCalled == got # Idle
GetAllCalled == allrows # Idle

ColumnNames == {response.val.headers[i].name : i \in 1..Len(response.val.headers)}
RowNumbers == 0..(Len(response.val.rows) - 1)
Named(c) == {i \in 1..Len(response.val.headers) : response.val.headers[i].name = c}
FirstNamed(c) == CHOOSE i \in Named(c) : \A j \in Named(c) : i <= j
LastNamed(c) == CHOOSE i \in Named(c) : \A j \in Named(c) : i >= j
\* The cell of row r (from 0) in column i (from 1), decoded by column i's header.
DecodedCell(r, i) ==
  Header_parse_data(response.val.headers[i], response.val.rows[r + 1][i])

\* C1: parse fails with ValueError when some data row (a line after the
\* second), split on "|", has a cell count other than the number of header
\* columns; when parse succeeds every stored row has as many cells as there
\* are headers and the rows are the body's data lines in their order.
C1_RowArity ==
  TableParsed =>
    LET lines == BodyLines
    IN /\ (/\ Len(lines) >= 2
           /\ \E i \in 3..Len(lines) : CellCount(lines[i]) # CellCount(lines[1]))
          => response = Err("ValueError")
       /\ response.ok =>
            /\ Len(response.val.headers) = CellCount(lines[1])
            /\ Len(response.val.rows) = Len(lines) - 2
            /\ \A i \in 1..Len(response.val.rows) :
                 /\ Len(response.val.rows[i]) = Len(response.val.headers)
                 /\ JoinCells(response.val.rows[i]) = lines[i + 2]

\* C1's case: two different data rows under two headers, stored in order.
C1_ParsedWitness ==
  /\ TableParsed /\ response.ok
  /\ Len(response.val.headers) = 2
  /\ Len(response.val.rows) = 2
  /\ response.val.rows[1] # response.val.rows[2]

\* C1's other case: a body rejected for the cell count of a row alone.
C1_RejectedWitness ==
  /\ TableParsed /\ ~response.ok
  /\ LET lines == BodyLines
     IN /\ Len(lines) >= 3
        /\ HeaderRowValid(lines[1]) /\ IsSeqnLine(lines[2])
        /\ \E i \in 3..Len(lines) : CellCount(lines[i]) # CellCount(lines[1])

\* C2: get_all() returns one mapping per data row, in row order, with
\* get_all()[r][c] = get(r, c) for every row r and header name c; get_all()
\* fails exactly when some such get(r, c) fails.
C2_GetAllAgreesWithGet ==
  GetAllCalled =>
    /\ allrows.ok <=>
         \A r \in RowNumbers, c \in ColumnNames :
           RibbitResponse_get(response.val, r, c).ok
    /\ allrows.ok =>
         /\ Len(allrows.val) = Len(response.val.rows)
         /\ \A r \in RowNumbers :
              /\ {allrows.val[r + 1][k].key : k \in 1..Len(allrows.val[r + 1])}
                   = ColumnNames
              /\ \A c \in ColumnNames :
                   DictGet(allrows.val[r + 1], c)
                     = RibbitResponse_get(response.val, r, c).val
    /\ ~allrows.ok => allrows = Err("ValueError")

\* C2's case: get_all() has returned two rows, a DEC cell and an empty one.
C2_Witness ==
  /\ GetAllCalled /\ allrows.ok
  /\ Len(allrows.val) = 2
  /\ "n" \in ColumnNames
  /\ DictGet(allrows.val[1], "n") = IntVal(7)
  /\ DictGet(allrows.val[2], "n") = None

\* C3 as claimed: get(row, column) decodes the cell of the FIRST header named
\* column, with that header's type and size, and fails with ValueError when
\* no header is named column.
C3_FirstMatch ==
  GetCalled =>
    IF Named(got.column) = {} THEN got.result = Err("ValueError")
    ELSE got.row \in RowNumbers =>
           got.result = DecodedCell(got.row, FirstNamed(got.column))

\* C3 as amended: get(row, column) decodes the cell of the LAST header named
\* column, with that header's type and size, and fails with ValueError when
\* no header is named column.
C3_LastMatch ==
  GetCalled =>
    IF Named(got.column) = {} THEN got.result = Err("ValueError")
    ELSE got.row \in RowNumbers =>
           got.result = DecodedCell(got.row, LastNamed(got.column))

\* C3's case: a column name two headers share, where the two cells decode
\* differently and get has returned.
C3_Witness ==
  /\ GetCalled /\ got.result.ok
  /\ got.row \in RowNumbers
  /\ Cardinality(Named(got.column)) = 2
  /\ DecodedCell(got.row, FirstNamed(got.column)) # got.result

\* C3's other case: get of a name that is no header's.
C3_UnknownWitness ==
  GetCalled /\ Named(got.column) = {} /\ got.result = Err("ValueError")

\* C8: parse fails with ValueError whenever the body has no second line or
\* the second line is not "## seqn = " followed by one or more digits and
\* nothing else; when parse succeeds sequence_number is the value of the digits.
C8_SeqnRow ==
  TableParsed =>
    LET lines == BodyLines
    IN /\ (Len(lines) < 2 \/ ~IsSeqnLine(lines[2]))
          => response = Err("ValueError")
       /\ response.ok =>
            response.val.sequence_number
              = DecimalValue(SubSeq(lines[2], 11, Len(lines[2])))

\* C8's case: a parsed body whose sequence-number row has leading zeros.
C8_Witness ==
  /\ TableParsed /\ response.ok
  /\ BodyLines[2] = "## seqn = 007"
  /\ response.val.sequence_number = 7

\* C8's other case: a body rejected for its sequence-number row alone.
C8_RejectedWitness ==
  /\ TableParsed /\ ~response.ok
  /\ LET lines == BodyLines
     IN /\ Len(lines) = 2
        /\ HeaderRowValid(lines[1])
        /\ lines[2] = "## seqn = 12x"

\* C10: parse looks at no cell's content: a body parses exactly when its
\* header row, its sequence-number row and its rows' cell counts are valid.
\* A cell that does not decode fails only the get(r, c) that addresses it, and
\* get_all(); get of any other cell succeeds or fails by that cell alone.
C10_DecodeIsDeferred ==
  /\ TableParsed => (response.ok <=> StructurallyValid)
  /\ (GetCalled /\ got.row \in RowNumbers /\ got.column \in ColumnNames) =>
       (got.result.ok <=> DecodedCell(got.row, LastNamed(got.column)).ok)
  /\ GetAllCalled =>
       (allrows.ok <=>
          \A r \in RowNumbers, c \in ColumnNames : DecodedCell(r, LastNamed(c)).ok)

\* C10's case: a parsed response holding a cell that does not decode, a get
\* of another cell of the same row that has succeeded, and a get_all() that
\* has failed.
C10_Witness ==
  /\ TableParsed /\ response.ok
  /\ GetCalled /\ got.result.ok
  /\ got.row \in RowNumbers /\ got.column \in ColumnNames
  /\ \E c \in ColumnNames :
       c # got.column /\ ~DecodedCell(got.row, LastNamed(c)).ok
  /\ GetAllCalled /\ ~allrows.ok

(***************************************************************************)
(* The BuildVersion claim.                                                 *)
(***************************************************************************)
\* The decimal numeral of n, zero-padded on the left to two characters.
Numeral(n) == IF n < 0 THEN "-" \o nat_str(0 - n) ELSE nat_str(n)
PaddedToTwo(n) == IF Len(Numeral(n)) < 2 THEN "0" \o Numeral(n) ELSE Numeral(n)

\* C9: for a BuildVersion parsed from four dot-separated components,
\* interface_version is major as it is, then minor as an integer zero-padded
\* to width 2, then patch likewise, and fails with ValueError when minor or
\* patch is no integer; version is major.minor.patch.
C9_InterfaceVersion ==
  /\ (bv # Idle /\ bv.ok) =>
       bv.val.major \o "." \o bv.val.minor \o "." \o bv.val.patch
         \o "." \o bv.val.build = vstr
  /\ (derived.version # Idle) =>
       derived.version.val \o "." \o bv.val.build = vstr
  /\ (derived.interface # Idle) =>
       IF IsInteger(bv.val.minor) /\ IsInteger(bv.val.patch)
       THEN derived.interface =
              Ok(bv.val.major \o PaddedToTwo(int(bv.val.minor).val)
                              \o PaddedToTwo(int(bv.val.patch).val))
       ELSE derived.interface = Err("ValueError")
  /\ (derived.interface # Idle /\ vstr = "10.2.5.12345") =>
       derived.interface = Ok("100205")
  /\ (derived.interface # Idle /\ vstr = "1.0.0.1") =>
       derived.interface = Ok("10000")

\* C9's case: the spec's example, both properties read.
C9_Witness ==
  /\ vstr = "10.2.5.12345"
  /\ derived.version = Ok("10.2.5")
  /\ derived.interface = Ok("100205")

\* C9's other case: a minor that is no integer.
C9_FailedWitness ==
  /\ bv # Idle /\ bv.ok /\ bv.val.minor = "x"
  /\ derived.interface = Err("ValueError")

(***************************************************************************)
(* The orchestrator claims.                                                *)
(***************************************************************************)
\* What lines 186-201 derive from a body, as a table over the bodies.
BodyDerivation ==
  [b \in RunBodies \cup {""} |->
     LET r == RibbitResponse_parse(b)
     IN IF r.ok THEN product_dict("", r.val) ELSE r]

Printed == stdout # <<>>
AnyTaskFailed == \E i \in 1..Len(products) : tasks[i].state = "failed"
AnyDerivationFails ==
  \E i \in 1..Len(products) :
    tasks[i].state = "done" /\ ~BodyDerivation[tasks[i].text].ok
SecondLine(text) == str_splitlines(text)[2]

\* C4: whatever the order in which the fetches complete, the printed report
\* lists the product keys in the order of the product list, and each
\* product's entry carries the sequence number and the versions of the body
\* fetched for that product.
C4_ReportFollowsListing ==
  Printed =>
    /\ DictKeys(stdout[1].products) = products
    /\ \A i \in 1..Len(products) :
         LET entry == stdout[1].products[i].value
         IN /\ tasks[i].url = get_version_endpoint(products[i])
            /\ entry.name = products[i]
            /\ entry.sequence_number
                 = DecimalValue(SubSeq(SecondLine(tasks[i].text), 11,
                                       Len(SecondLine(tasks[i].text))))
            /\ entry.versions = BodyDerivation[tasks[i].text].val.versions

\* C4's case: a report printed after some fetch completed before the fetch
\* of a product listed earlier, the products' bodies not all the same.
C4_Witness ==
  /\ Printed
  /\ overtaken
  /\ \E i, j \in 1..Len(products) : tasks[i].text # tasks[j].text

\* C5: once a fetch has failed (transport error or status) or a parse or
\* derivation step fails, nothing is ever printed and run() ends with the
\* exception; JSON is printed only when every product's fetch, parse and
\* derivation succeeded, after all fetches completed, and at most once.
C5_NoPartialOutput ==
  /\ Len(stdout) <= 1
  /\ (AnyTaskFailed \/ AnyDerivationFails) => (stdout = <<>> /\ pc # "done")
  /\ (AnyTaskFailed /\ pc = "gather") => gatherExc # ""
  /\ Printed =>
       /\ pc = "done"
       /\ \A i \in 1..Len(products) :
            /\ tasks[i].state = "done"
            /\ tasks[i].result = RibbitResponse_parse(tasks[i].text)
            /\ BodyDerivation[tasks[i].text].ok
  /\ pc = "done" => (Printed /\ runExc = "")
  /\ pc = "failed" => (stdout = <<>> /\ runExc # "")
  /\ pc = "gather" =>
       \/ \E i \in 1..Len(products) : tasks[i].state \in {"pending", "awaiting"}
       \/ gatherExc # ""
       \/ \A i \in 1..Len(products) : tasks[i].state = "done"

\* C5's case: run() has ended with an exception raised while assembling,
\* after every fetch succeeded and some product's derivation was good.
C5_Witness ==
  /\ pc = "failed" /\ stdout = <<>>
  /\ \A i \in 1..Len(products) : tasks[i].state = "done"
  /\ \E i \in 1..Len(products) : BodyDerivation[tasks[i].text].ok
  /\ AnyDerivationFails

\* C5's other cases: run() ended by a failed fetch while another product's
\* fetch had succeeded; and a report printed.
C5_FetchFailedWitness ==
  /\ pc = "failed" /\ stdout = <<>>
  /\ \E i \in 1..Len(products) : tasks[i].state = "done"
  /\ \E i \in 1..Len(products) : tasks[i].result = Err("HTTPStatusError")

C5_PrintedWitness == pc = "done" /\ Len(stdout) = 1

=============================================================================
